---- MODULE Spec2Model ----
(***************************************************************************)
(* Model of the media flows of jupiterbania/Eveyka:                        *)
(*   src/src/ai/flows/upload-media-flow.ts            (variant "inline")   *)
(*   src/unnamed/part_000                             (variant "pre")      *)
(*   src/src/ai/flows/process-and-upload-media-flow.ts                     *)
(* A request is one invocation of uploadMedia or processAndUploadMedia.    *)
(* Every action runs a handler from one await to the next.                 *)
(***************************************************************************)
EXTENDS Integers, Sequences, FiniteSets, TLC

(* ------------------------------ bounds --------------------------------- *)

\* Number of invocations that may be in flight together.
NumReqs == 2

\* Largest reading of the millisecond clock (Date.now()).
MaxClock == 2

Reqs == 1..NumReqs

\* The invocations followed with the full input / response domains.
MainReqs == {1}

(* --------------------------- JavaScript values ------------------------- *)

Undefined == [t |-> "undefined"]

Null == [t |-> "null"]

Str(s) == [t |-> "string", v |-> s]

Bool(b) == [t |-> "boolean", v |-> b]

Num(n) == [t |-> "number", v |-> n]

\* The metadata object of an ImageKit response, with its thumbnailUrl field.
Meta(th) == [t |-> "object", thumbnailUrl |-> th]

\* JavaScript truthiness, as used by !x, x || y and if (x).
Truthy(x) ==
  CASE x.t = "undefined" -> FALSE
    [] x.t = "null"      -> FALSE
    [] x.t = "string"    -> x.v # ""
    [] x.t = "boolean"   -> x.v
    [] x.t = "number"    -> x.v # 0
    [] OTHER             -> TRUE

\* x || y
Or(x, y) == IF Truthy(x) THEN x ELSE y

\* (m as any)?.thumbnailUrl
OptThumbnailUrl(m) ==
  IF m.t \in {"undefined", "null"} THEN Undefined
  ELSE IF m.t = "object" THEN m.thumbnailUrl
  ELSE Undefined

(* ------------------------------- strings ------------------------------- *)

ImageDataUri == "data:image/png;base64,AAAA"

PlainText == "hello"

MediaUrl == "https://cdn.example/x.png"

ThumbUrl == "https://cdn.example/x.jpg"

MetaThumbUrl == "https://cdn.example/meta.jpg"

NotAUrl == "not a url"

\* The strings of the model that the URL parser behind z.string().url() accepts.
UrlStrings == {MediaUrl, ThumbUrl, MetaThumbUrl}

\* Colour strings are sequences of characters.
HexColor == <<"#", "1", "A", "2", "B", "3", "C">>

ShortHex == <<"#", "F", "F", "F">>

NamedColor == <<"b", "l", "u", "e">>

(* ----------------------------- zod schemas ----------------------------- *)

\* z.string()
ZString(x) == x.t = "string"

\* z.string().url()
ZUrl(x) == ZString(x) /\ x.v \in UrlStrings

\* z.boolean().optional()
ZOptBoolean(x) == x.t \in {"undefined", "boolean"}

\* z.enum(['image', 'video'])
ZMediaType(x) == ZString(x) /\ x.v \in {"image", "video"}

UploadMediaInputSchema(in) ==
  /\ ZString(in.mediaDataUri)
  /\ ZOptBoolean(in.isVideo)

UploadMediaOutputSchema(out) ==
  /\ ZUrl(out.mediaUrl)
  /\ (out.thumbnailUrl.t = "undefined" \/ ZUrl(out.thumbnailUrl))

ProcessMediaInputSchema(in) ==
  /\ ZString(in.mediaDataUri)
  /\ ZMediaType(in.mediaType)

ProcessMediaOutputSchema(out) ==
  /\ ZUrl(out.mediaUrl)
  /\ (out.thumbnailUrl.t = "undefined" \/ ZUrl(out.thumbnailUrl))
  /\ (out.dominantColor.t = "undefined" \/ ZString(out.dominantColor))

\* output: { schema: ColorExtractOutputSchema } of the prompt.
ColorExtractOutputSchema(out) ==
  /\ out.t = "object"
  /\ ZString(out.dominantColor)

(* ------------------------- outcomes of a call -------------------------- *)

\* Nothing has settled yet.
NoOutcome == [st |-> "none"]

\* A flow returned value.
Ok(value) == [ok |-> TRUE, value |-> value]

\* A flow threw an error with this name and message.
Fail(name, message) == [ok |-> FALSE, error |-> [name |-> name, message |-> message]]

\* imagekit.upload resolved with a response.
Returned(resp) == [throws |-> FALSE, response |-> resp]

\* imagekit.upload rejected with an error object.
Threw(err) == [throws |-> TRUE, error |-> err]

\* Rejection of a flow's input or output by its zod schema.
SchemaError == Fail("GenkitError", "Schema validation failed.")

NoUrlMessage == "ImageKit response did not include a URL."

(* --------------------------- uploadMediaFlow --------------------------- *)

Variants == {"inline", "pre"}

\* The transformation requested for a video.
Transformation(v) ==
  IF v = "inline"
  THEN [t |-> "object", v |-> "[{name: Video Thumbnail, options: {format: jpg, quality: 80}}]"]
  ELSE [t |-> "object", v |-> "{pre: media-thumbnail-generator}"]

\* `media-${Date.now()}`
\* Variation: the clock reading is left out of the name.
MutFileName(clock) == Str("media-")

FileName(clock) == Str("media-" \o ToString(clock))

\* if (input.isVideo) uploadOptions.transformation = ...
\* Variation: the transformation is attached whatever isVideo is.
MutAttachTransformation(v, in) == Transformation(v)

AttachTransformation(v, in) ==
  IF Truthy(in.isVideo) THEN Transformation(v) ELSE Undefined

\* The uploadOptions object handed to imagekit.upload.
UploadOptions(v, in, clock) ==
  [ file              |-> in.mediaDataUri,
    fileName          |-> FileName(clock),
    useUniqueFileName |-> Bool(TRUE),
    transformation    |-> AttachTransformation(v, in) ]

\* The thumbnailUrl of the returned object.
\* Variation: no variant looks at the metadata.
MutThumbnailOf(v, resp) == resp.thumbnailUrl

ThumbnailOf(v, resp) ==
  IF v = "inline"
  THEN Or(resp.thumbnailUrl, OptThumbnailUrl(resp.metadata))
  ELSE resp.thumbnailUrl

\* The catch block: log, then throw a new Error built from error.message.
Caught(v, err) ==
  IF v = "inline"
  THEN Fail("Error", "Media upload failed: "
                       \o Or(err.message, Str("Unknown ImageKit error")).v)
  ELSE Fail("Error", Or(err.message,
                        Str("An unknown error occurred during media upload.")).v)

\* if (!response.url) throw ...
\* Variation: the url check is missing.
MutLacksUrl(resp) == FALSE

LacksUrl(resp) == ~Truthy(resp.url)

\* The handler from the settling of imagekit.upload to its return or throw.
UploadHandler(v, svc) ==
  IF svc.throws THEN Caught(v, svc.error)
  ELSE IF LacksUrl(svc.response) THEN Caught(v, [message |-> Str(NoUrlMessage)])
  ELSE Ok([ mediaUrl     |-> svc.response.url,
            thumbnailUrl |-> ThumbnailOf(v, svc.response) ])

\* uploadMedia as its caller sees it: the handler, then the outputSchema.
UploadMediaFlow(v, svc) ==
  LET o == UploadHandler(v, svc)
  IN  IF o.ok /\ ~UploadMediaOutputSchema(o.value) THEN SchemaError ELSE o

(* ---------------------- processAndUploadMediaFlow ---------------------- *)

\* isVideo: input.mediaType === 'video'
IsVideoOf(in) == Bool(in.mediaType = Str("video"))

\* Step 1: the input of uploadMedia.
UploadInputOf(in) ==
  [ mediaDataUri |-> in.mediaDataUri, isVideo |-> IsVideoOf(in) ]

\* if (input.mediaType === 'image')
\* Variation: the colour is extracted for every media type.
MutWantsColor(in) == TRUE

WantsColor(in) == in.mediaType = Str("image")

\* The prompt call: the model's answer, held against the output schema. Whether
\* the library rejects an answer that does not conform (strict) or hands it on
\* is not decided by this repository: both happen.
ColorExtractPrompt(answer, strict) ==
  IF answer.throws THEN answer
  ELSE IF answer.output.t = "null" THEN answer
  ELSE IF ColorExtractOutputSchema(answer.output) THEN answer
  ELSE IF strict THEN [throws |-> TRUE]
  ELSE answer

\* colorResult.output?.dominantColor
DominantColorOf(settled) ==
  IF settled.output.t = "null" THEN Undefined
  ELSE settled.output.dominantColor

\* Step 3: the consolidated result.
\* Variation: the thumbnailUrl is dropped from the result.
MutAssemble(uploadResult, dominantColor) ==
  [ mediaUrl      |-> uploadResult.mediaUrl,
    thumbnailUrl  |-> Undefined,
    dominantColor |-> dominantColor ]

Assemble(uploadResult, dominantColor) ==
  [ mediaUrl      |-> uploadResult.mediaUrl,
    thumbnailUrl  |-> uploadResult.thumbnailUrl,
    dominantColor |-> dominantColor ]

\* The flow's return: the handler's value, then the outputSchema.
ProcessReturn(value) ==
  IF ProcessMediaOutputSchema(value) THEN Ok(value) ELSE SchemaError

\* The handler from the settling of uploadMedia to the next await or its end:
\* "throw" (uploadMedia threw), "nourl", "color" (await the prompt), "return".
\* Variation: the colour step is entered before the upload's outcome is looked at.
MutAfterUpload(in, upl) ==
  IF WantsColor(in) THEN "color"
  ELSE IF ~upl.ok THEN "throw"
  ELSE "return"

AfterUpload(in, upl) ==
  IF ~upl.ok THEN "throw"
  ELSE IF ~Truthy(upl.value.mediaUrl) THEN "nourl"
  ELSE IF WantsColor(in) THEN "color"
  ELSE "return"

\* Step 2 and 3 once the prompt call has settled: the try assigns the colour,
\* the catch swallows the error; then the result is returned.
\* Variation: the catch block re-throws.
MutAfterColor(uploadResult, settled) ==
  IF settled.throws THEN Fail("Error", "Could not extract dominant color")
  ELSE ProcessReturn(Assemble(uploadResult, DominantColorOf(settled)))

AfterColor(uploadResult, settled) ==
  IF settled.throws THEN ProcessReturn(Assemble(uploadResult, Undefined))
  ELSE ProcessReturn(Assemble(uploadResult, DominantColorOf(settled)))

(* ------------------------------ the state ------------------------------ *)

VARIABLES
  now,      \* the reading of Date.now()
  variant,  \* which upload-media-flow is deployed
  req       \* req[r]: the invocation r

vars == <<now, variant, req>>

Idle ==
  [ pc          |-> "idle",    \* idle, upload, color, done, failed
    kind        |-> "none",    \* uploadMedia, processAndUploadMedia
    input       |-> Undefined, \* the caller's argument
    uploadInput |-> Undefined, \* the argument of uploadMedia
    options     |-> Undefined, \* the uploadOptions sent to imagekit.upload
    clock       |-> 0,         \* the Date.now() read for the fileName
    inflight    |-> {},        \* the external calls awaited
    svcCalls    |-> 0,         \* calls of imagekit.upload
    colorCalls  |-> 0,         \* calls of colorExtractPrompt
    svc         |-> NoOutcome, \* how imagekit.upload settled
    upl         |-> NoOutcome, \* how uploadMedia settled
    answer      |-> NoOutcome, \* what the colour model answered
    color       |-> NoOutcome, \* how colorExtractPrompt settled
    out         |-> NoOutcome  \* how the invocation settled
  ]

(* ------------------------- inputs and responses ------------------------ *)

DataUriInputs ==
  {Undefined, Num(7), Str(ImageDataUri), Str(PlainText)}

UploadInputs ==
  [ mediaDataUri : DataUriInputs,
    isVideo      : {Undefined, Bool(TRUE), Bool(FALSE), Str("yes")} ]

ProcessInputs ==
  [ mediaDataUri : DataUriInputs,
    mediaType    : {Undefined, Str("image"), Str("video"), Str("audio")} ]

Responses ==
  [ url          : {Undefined, Str(""), Str(MediaUrl), Str(NotAUrl)},
    thumbnailUrl : {Undefined, Str(""), Str(ThumbUrl)},
    metadata     : {Undefined, Meta(Undefined), Meta(Str(MetaThumbUrl))} ]

ServiceOutcomes ==
  {Returned(resp) : resp \in Responses}
    \cup {Threw([message |-> m]) : m \in {Undefined, Str("Request timed out")}}

ColorAnswers ==
  {[throws |-> TRUE]}
    \cup {[throws |-> FALSE, output |-> o] :
            o \in {Null} \cup {[t |-> "object", dominantColor |-> c] :
                      c \in {Str(HexColor), Str(ShortHex), Str(NamedColor), Num(255)}}}

\* The narrow domains of the concurrent specification.
ConcUploadInputs ==
  [ mediaDataUri : {Str(ImageDataUri)},
    isVideo      : {Undefined, Bool(TRUE)} ]

ConcServiceOutcomes ==
  { Returned([url |-> Str(MediaUrl), thumbnailUrl |-> Undefined, metadata |-> Undefined]),
    Threw([message |-> Undefined]) }

(* ------------------------------- actions ------------------------------- *)

Init ==
  /\ now = 0
  /\ variant \in Variants
  /\ req = [r \in Reqs |-> Idle]

\* The millisecond clock advances.
Tick ==
  /\ now < MaxClock
  /\ now' = now + 1
  /\ UNCHANGED <<variant, req>>

\* uploadMediaFlow from its call to the await of imagekit.upload.
StartUpload(q, uploadInput) ==
  IF ~UploadMediaInputSchema(uploadInput)
  THEN [q EXCEPT !.pc = "failed", !.uploadInput = uploadInput,
                 !.upl = SchemaError, !.out = SchemaError]
  ELSE [q EXCEPT !.pc = "upload", !.uploadInput = uploadInput,
                 !.clock = now,
                 !.options = UploadOptions(variant, uploadInput, now),
                 !.svcCalls = @ + 1,
                 !.inflight = @ \cup {"upload"}]

\* A caller invokes uploadMedia(input).
InvokeUploadMedia(r, inputs) ==
  /\ req[r].pc = "idle"
  /\ \E in \in inputs :
       req' = [req EXCEPT ![r] =
                 StartUpload([req[r] EXCEPT !.kind = "uploadMedia", !.input = in], in)]
  /\ UNCHANGED <<now, variant>>

\* A caller invokes processAndUploadMedia(input).
InvokeProcessAndUploadMedia(r, inputs) ==
  /\ req[r].pc = "idle"
  /\ \E in \in inputs :
       LET q == [req[r] EXCEPT !.kind = "processAndUploadMedia", !.input = in]
       IN  req' = [req EXCEPT ![r] =
                     IF ~ProcessMediaInputSchema(in)
                     THEN [q EXCEPT !.pc = "failed", !.out = SchemaError]
                     ELSE LET s == StartUpload(q, UploadInputOf(in))
                          IN  IF s.pc = "failed" THEN [s EXCEPT !.out = s.upl] ELSE s]
  /\ UNCHANGED <<now, variant>>

\* processAndUploadMediaFlow from the settling of uploadMedia on.
ContinueProcess(q) ==
  LET step == AfterUpload(q.input, q.upl)
  IN  CASE step = "throw"  -> [q EXCEPT !.pc = "failed", !.out = q.upl]
        [] step = "nourl"  -> [q EXCEPT !.pc = "failed",
                                 !.out = Fail("Error", "Media upload failed to return a URL.")]
        [] step = "color"  -> [q EXCEPT !.pc = "color",
                                 !.colorCalls = @ + 1,
                                 !.inflight = @ \cup {"color"}]
        [] step = "return" ->
             LET o == ProcessReturn(Assemble(q.upl.value, Undefined))
             IN  [q EXCEPT !.pc = IF o.ok THEN "done" ELSE "failed", !.out = o]

\* imagekit.upload settles (resolves or rejects) and the awaiting code runs on.
UploadSettles(r, outcomes) ==
  /\ req[r].pc = "upload"
  /\ \E svc \in outcomes :
       LET upl == UploadMediaFlow(variant, svc)
           q   == [req[r] EXCEPT !.svc = svc, !.upl = upl,
                                 !.inflight = @ \ {"upload"}]
       IN  req' = [req EXCEPT ![r] =
                     IF q.kind = "uploadMedia"
                     THEN [q EXCEPT !.pc = IF upl.ok THEN "done" ELSE "failed",
                                    !.out = upl]
                     ELSE ContinueProcess(q)]
  /\ UNCHANGED <<now, variant>>

\* colorExtractPrompt settles and the flow returns.
ColorSettles(r, answers) ==
  /\ req[r].pc = "color"
  /\ \E a \in answers, strict \in BOOLEAN :
       LET settled == ColorExtractPrompt(a, strict)
           o       == AfterColor(req[r].upl.value, settled)
       IN  req' = [req EXCEPT ![r] =
                     [@ EXCEPT !.answer = a, !.color = settled,
                               !.inflight = @ \ {"color"},
                               !.pc = IF o.ok THEN "done" ELSE "failed",
                               !.out = o]]
  /\ UNCHANGED <<now, variant>>

Next ==
  \/ Tick
  \/ \E r \in MainReqs : InvokeUploadMedia(r, UploadInputs)
  \/ \E r \in MainReqs : InvokeProcessAndUploadMedia(r, ProcessInputs)
  \/ \E r \in MainReqs : UploadSettles(r, ServiceOutcomes)
  \/ \E r \in MainReqs : ColorSettles(r, ColorAnswers)

\* One invocation, every input and every answer of the collaborators.
Spec == Init /\ [][Next]_vars

NextConc ==
  \/ Tick
  \/ \E r \in Reqs : InvokeUploadMedia(r, ConcUploadInputs)
  \/ \E r \in Reqs : UploadSettles(r, ConcServiceOutcomes)

\* Concurrent invocations of uploadMedia sharing the clock.
SpecConc == Init /\ [][NextConc]_vars

(* ------------------------------- claims -------------------------------- *)

IsProcess(q) == q.kind = "processAndUploadMedia"

IsUpload(q) == q.kind = "uploadMedia"

\* imagekit.upload resolved with a response in invocation q.
ServiceReturned(q) == q.svc # NoOutcome /\ ~q.svc.throws

\* uploadMedia returned a result in invocation q.
UploadSucceeded(q) == q.upl # NoOutcome /\ q.upl.ok

\* The invocation returned a result.
Succeeded(q) == q.pc = "done" /\ q.out.ok

\* C1: a processAndUploadMedia request with mediaType "video" never calls the
\* colour prompt, and a result it returns has dominantColor undefined.
C1_VideoNeverExtracts ==
  \A r \in Reqs :
    LET q == req[r]
    IN  (IsProcess(q) /\ q.input.mediaType = Str("video")) =>
          /\ q.colorCalls = 0
          /\ "color" \notin q.inflight
          /\ q.color = NoOutcome
          /\ (Succeeded(q) => q.out.value.dominantColor = Undefined)

C1_Witness ==
  \E r \in Reqs :
    /\ IsProcess(req[r]) /\ req[r].input.mediaType = Str("video")
    /\ Succeeded(req[r])
    /\ req[r].out.value.thumbnailUrl = Str(ThumbUrl)

\* C2: for an image request whose upload succeeded, a throwing colour prompt
\* does not fail the request: it returns the upload's mediaUrl and
\* thumbnailUrl and an undefined dominantColor.
C2_ColorFailureAbsorbed ==
  \A r \in Reqs :
    LET q == req[r]
    IN  (/\ IsProcess(q) /\ q.input.mediaType = Str("image")
         /\ UploadSucceeded(q)
         /\ q.color # NoOutcome /\ q.color.throws) =>
          /\ Succeeded(q)
          /\ q.out.value.dominantColor = Undefined
          /\ q.out.value.mediaUrl = q.upl.value.mediaUrl
          /\ q.out.value.thumbnailUrl = q.upl.value.thumbnailUrl
          /\ q.out.value.mediaUrl = q.svc.response.url

C2_Witness ==
  \E r \in Reqs :
    /\ IsProcess(req[r]) /\ req[r].input.mediaType = Str("image")
    /\ req[r].answer = [throws |-> TRUE]
    /\ Succeeded(req[r])
    /\ req[r].out.value.mediaUrl = Str(MediaUrl)

\* C3: in processAndUploadMedia a failed uploadMedia fails the request with
\* that error and without a colour call; a colour call is made only after
\* uploadMedia has returned, and the two calls are never awaited together.
C3_UploadFirstAndFatal ==
  \A r \in Reqs :
    LET q == req[r]
    IN  IsProcess(q) =>
          /\ (q.upl # NoOutcome /\ ~q.upl.ok) =>
                (q.pc = "failed" /\ q.out = q.upl /\ q.colorCalls = 0)
          /\ q.colorCalls > 0 =>
                (q.svcCalls = 1 /\ UploadSucceeded(q) /\ "upload" \notin q.inflight)
          /\ Cardinality(q.inflight) <= 1
          /\ q.pc = "color" <=> q.inflight = {"color"}

C3_Witness ==
  \E r \in Reqs :
    /\ IsProcess(req[r]) /\ req[r].input.mediaType = Str("image")
    /\ req[r].svc # NoOutcome /\ req[r].svc.throws
    /\ req[r].pc = "failed"

\* C4: when the service's response has no url (absent or empty), uploadMedia
\* throws the handler's error and returns nothing, in both variants.
C4_NoUrlIsAnError ==
  \A r \in Reqs :
    LET q == req[r]
    IN  (ServiceReturned(q) /\ ~Truthy(q.svc.response.url)) =>
          /\ ~q.upl.ok
          /\ q.upl.error.name = "Error"
          /\ q.upl.error.message =
               (IF variant = "inline" THEN "Media upload failed: " ELSE "") \o NoUrlMessage
          /\ q.pc = "failed"
          /\ q.out = q.upl

C4_Witness ==
  \E r \in Reqs :
    /\ IsUpload(req[r])
    /\ ServiceReturned(req[r])
    /\ req[r].svc.response.url = Str("")
    /\ req[r].svc.response.thumbnailUrl = Str(ThumbUrl)
    /\ req[r].pc = "failed"

\* C5: the options sent to the service carry a transformation exactly when
\* isVideo is true; for processAndUploadMedia exactly when mediaType is video.
C5_TransformationIffVideo ==
  \A r \in Reqs :
    LET q == req[r]
    IN  q.svcCalls > 0 =>
          /\ q.options.transformation # Undefined <=> q.uploadInput.isVideo = Bool(TRUE)
          /\ q.options.transformation \in {Undefined, Transformation(variant)}
          /\ IsProcess(q) =>
               (q.options.transformation # Undefined <=> q.input.mediaType = Str("video"))

C5_Witness ==
  \E r \in Reqs :
    /\ IsProcess(req[r]) /\ req[r].input.mediaType = Str("video")
    /\ req[r].svcCalls = 1
    /\ req[r].options.transformation = Transformation(variant)

\* A data URI that is base64 and carries a MIME type.
WellFormedDataUri(x) == ZString(x) /\ x.v \in {ImageDataUri}

WellFormedRequest(q) ==
  /\ WellFormedDataUri(q.input.mediaDataUri)
  /\ IsProcess(q) => ZMediaType(q.input.mediaType)

\* C6: a request whose mediaDataUri is absent or not a well-formed data URI,
\* or whose mediaType is not image/video, never reaches the upload service or
\* the colour model.
C6_MalformedNeverReachesService ==
  \A r \in Reqs :
    LET q == req[r]
    IN  (q.pc # "idle" /\ ~WellFormedRequest(q)) =>
          (q.svcCalls = 0 /\ q.colorCalls = 0)

\* The colour that the prompt call handed to the flow.
ColorReturned(q) ==
  IF q.color = NoOutcome THEN Undefined
  ELSE IF q.color.throws THEN Undefined
  ELSE DominantColorOf(q.color)

\* C7: a successful processAndUploadMedia result is the merge of the steps:
\* the service's url, the upload result's thumbnailUrl, and the colour the
\* prompt returned (undefined without output, on error, or for video).
C7_ResultIsMerge ==
  \A r \in Reqs :
    LET q == req[r]
    IN  (IsProcess(q) /\ Succeeded(q)) =>
          /\ DOMAIN q.out.value = {"mediaUrl", "thumbnailUrl", "dominantColor"}
          /\ ServiceReturned(q)
          /\ q.out.value.mediaUrl = q.svc.response.url
          /\ q.out.value.thumbnailUrl = q.upl.value.thumbnailUrl
          /\ q.out.value.dominantColor =
               (IF q.input.mediaType = Str("image") THEN ColorReturned(q) ELSE Undefined)

C7_Witness ==
  \E r \in Reqs :
    /\ IsProcess(req[r]) /\ Succeeded(req[r])
    /\ req[r].out.value = [ mediaUrl      |-> Str(MediaUrl),
                            thumbnailUrl  |-> Str(ThumbUrl),
                            dominantColor |-> Str(HexColor) ]

\* The thumbnailUrl at the fallback location of a response.
FallbackThumbnail(resp) ==
  IF Truthy(OptThumbnailUrl(resp.metadata)) THEN OptThumbnailUrl(resp.metadata)
  ELSE Undefined

\* C8 as stated: on a successful upload thumbnailUrl is the primary field when
\* present, otherwise the metadata's thumbnailUrl, undefined when neither is.
C8_ThumbnailFallback ==
  \A r \in Reqs :
    LET q == req[r]
    IN  (ServiceReturned(q) /\ UploadSucceeded(q)) =>
          q.upl.value.thumbnailUrl =
            (IF Truthy(q.svc.response.thumbnailUrl) THEN q.svc.response.thumbnailUrl
             ELSE FallbackThumbnail(q.svc.response))

\* C8 amended: the fallback exists in the inline-transformation variant only;
\* the pre-transformation variant returns the primary field as it is.
C8_ThumbnailPerVariant ==
  \A r \in Reqs :
    LET q == req[r]
    IN  (ServiceReturned(q) /\ UploadSucceeded(q)) =>
          q.upl.value.thumbnailUrl =
            (IF Truthy(q.svc.response.thumbnailUrl) THEN q.svc.response.thumbnailUrl
             ELSE IF variant = "inline" THEN FallbackThumbnail(q.svc.response)
             ELSE Undefined)

C8_Witness ==
  \E r \in Reqs :
    /\ variant = "inline"
    /\ ServiceReturned(req[r]) /\ UploadSucceeded(req[r])
    /\ req[r].svc.response.thumbnailUrl = Undefined
    /\ req[r].upl.value.thumbnailUrl = Str(MetaThumbUrl)

HexDigits ==
  {"0", "1", "2", "3", "4", "5", "6", "7", "8", "9",
   "A", "B", "C", "D", "E", "F", "a", "b", "c", "d", "e", "f"}

\* "#RRGGBB"
IsHexColor(s) ==
  /\ Len(s) = 7
  /\ s[1] = "#"
  /\ \A i \in 2..7 : s[i] \in HexDigits

\* C9: a dominantColor carried by a processAndUploadMedia result is a hex
\* colour string of the form #RRGGBB.
C9_DominantColorIsHex ==
  \A r \in Reqs :
    LET q == req[r]
    IN  (IsProcess(q) /\ Succeeded(q) /\ q.out.value.dominantColor # Undefined) =>
          IsHexColor(q.out.value.dominantColor.v)

\* Both invocations have handed their options to the upload service.
BothSent(r1, r2) == r1 # r2 /\ req[r1].svcCalls > 0 /\ req[r2].svcCalls > 0

\* C10 as stated: any two uploadMedia invocations send distinct fileNames.
C10_FileNamesDistinct ==
  \A r1, r2 \in Reqs :
    BothSent(r1, r2) => req[r1].options.fileName # req[r2].options.fileName

\* C10 amended: two invocations send the same fileName exactly when they read
\* the same clock value; each asks the service for a unique file name.
C10_FileNamesFollowClock ==
  \A r1, r2 \in Reqs :
    BothSent(r1, r2) =>
      /\ req[r1].options.fileName = req[r2].options.fileName
           <=> req[r1].clock = req[r2].clock
      /\ req[r1].options.useUniqueFileName = Bool(TRUE)

C10_Witness ==
  \E r1, r2 \in Reqs :
    /\ BothSent(r1, r2)
    /\ req[r1].clock # req[r2].clock
    /\ req[r1].options.fileName # req[r2].options.fileName
    /\ req[r1].inflight = {"upload"} /\ req[r2].inflight = {"upload"}

====
